---- MODULE Spec2Model ----
(***************************************************************************)
(* A model of SortXML.py: the priority sorter (sort_dict), the tree        *)
(* converter (xml_to_dict, dict_to_xml, prettify), the content scanners,   *)
(* the four reinsertion passes of process_xml_file and the batch driver.   *)
(*                                                                         *)
(* Strings are sequences of one-character strings, so that lower(),        *)
(* strip(), escaping, unescaping and alphabetical comparison are computed  *)
(* as the code computes them.  File contents are sequences of tokens (a    *)
(* start tag, a text run, a CDATA section, an end tag, ...): the regular   *)
(* expressions of the code are modelled by what they match on tokens.      *)
(*                                                                         *)
(* Limits of the token view: a start tag carries no attribute other than   *)
(* xmlns; a CDATA section stands alone in its element, with at most        *)
(* whitespace around it; the patterns of the scans and of passes 1 to 3    *)
(* are not matched inside the payload of a CDATA section (the pattern of   *)
(* pass 4 is); a namespace URI holds no brace.                             *)
(***************************************************************************)
EXTENDS Integers, Sequences, FiniteSets, TLC

(***************************************************************************)
(* Characters and strings                                                  *)
(***************************************************************************)

\* Code points of the characters that occur in tag names (ASCII).
AsciiCode ==
    "-" :> 45 @@ "." :> 46 @@ "/" :> 47 @@ "0" :> 48 @@ "1" :> 49 @@ "2" :> 50 @@
    "3" :> 51 @@ "4" :> 52 @@ "5" :> 53 @@ "6" :> 54 @@ "7" :> 55 @@ "8" :> 56 @@
    "9" :> 57 @@ ":" :> 58 @@ "=" :> 61 @@ "?" :> 63 @@ "A" :> 65 @@ "B" :> 66 @@
    "C" :> 67 @@ "D" :> 68 @@ "E" :> 69 @@ "F" :> 70 @@ "G" :> 71 @@ "H" :> 72 @@
    "I" :> 73 @@ "J" :> 74 @@ "K" :> 75 @@ "L" :> 76 @@ "M" :> 77 @@ "N" :> 78 @@
    "O" :> 79 @@ "P" :> 80 @@ "Q" :> 81 @@ "R" :> 82 @@ "S" :> 83 @@ "T" :> 84 @@
    "U" :> 85 @@ "V" :> 86 @@ "W" :> 87 @@ "X" :> 88 @@ "Y" :> 89 @@ "Z" :> 90 @@
    "_" :> 95 @@ "a" :> 97 @@ "b" :> 98 @@ "c" :> 99 @@ "d" :> 100 @@ "e" :> 101 @@
    "f" :> 102 @@ "g" :> 103 @@ "h" :> 104 @@ "i" :> 105 @@ "j" :> 106 @@ "k" :> 107 @@
    "l" :> 108 @@ "m" :> 109 @@ "n" :> 110 @@ "o" :> 111 @@ "p" :> 112 @@ "q" :> 113 @@
    "r" :> 114 @@ "s" :> 115 @@ "t" :> 116 @@ "u" :> 117 @@ "v" :> 118 @@ "w" :> 119 @@
    "x" :> 120 @@ "y" :> 121 @@ "z" :> 122

\* str.lower() on one character.
UpperToLower ==
    "A" :> "a" @@ "B" :> "b" @@ "C" :> "c" @@ "D" :> "d" @@ "E" :> "e" @@ "F" :> "f" @@
    "G" :> "g" @@ "H" :> "h" @@ "I" :> "i" @@ "J" :> "j" @@ "K" :> "k" @@ "L" :> "l" @@
    "M" :> "m" @@ "N" :> "n" @@ "O" :> "o" @@ "P" :> "p" @@ "Q" :> "q" @@ "R" :> "r" @@
    "S" :> "s" @@ "T" :> "t" @@ "U" :> "u" @@ "V" :> "v" @@ "W" :> "w" @@ "X" :> "x" @@
    "Y" :> "y" @@ "Z" :> "z"

LowerChar(c) == IF c \in DOMAIN UpperToLower THEN UpperToLower[c] ELSE c

\* str.lower()
Lower(s) == [i \in 1..Len(s) |-> LowerChar(s[i])]

\* s < t for Python strings: the first differing code point decides, a proper
\* prefix is smaller.
RECURSIVE StrLess(_, _)
StrLess(s, t) ==
    IF t = <<>> THEN FALSE
    ELSE IF s = <<>> THEN TRUE
    ELSE IF s[1] = t[1] THEN StrLess(Tail(s), Tail(t))
    ELSE AsciiCode[s[1]] < AsciiCode[t[1]]

\* s.startswith(p)
StartsWith(s, p) == Len(s) >= Len(p) /\ SubSeq(s, 1, Len(p)) = p

\* The strings at position i of s: s[i:].startswith(p)
HasAt(s, i, p) == i + Len(p) - 1 <= Len(s) /\ SubSeq(s, i, i + Len(p) - 1) = p

\* p in s
Contains(s, p) == \E i \in 1..(Len(s) + 1) : HasAt(s, i, p)

\* s.replace(p, r): every non-overlapping occurrence, left to right.
RECURSIVE ReplaceFrom(_, _, _, _)
ReplaceFrom(s, i, p, r) ==
    IF i > Len(s) THEN <<>>
    ELSE IF HasAt(s, i, p) THEN r \o ReplaceFrom(s, i + Len(p), p, r)
    ELSE <<s[i]>> \o ReplaceFrom(s, i + 1, p, r)

Replace(s, p, r) == ReplaceFrom(s, 1, p, r)

\* Characters str.strip() removes.
Whitespace == {" ", "\n", "\t"}

\* str.strip()
RECURSIVE LStrip(_)
LStrip(s) == IF s # <<>> /\ s[1] \in Whitespace THEN LStrip(Tail(s)) ELSE s

RECURSIVE RStrip(_)
RStrip(s) ==
    IF s # <<>> /\ s[Len(s)] \in Whitespace THEN RStrip(SubSeq(s, 1, Len(s) - 1)) ELSE s

Strip(s) == RStrip(LStrip(s))

(***************************************************************************)
(* The priority tables                                                     *)
(***************************************************************************)

S_id == <<"i", "d">>
S_name == <<"n", "a", "m", "e">>
S_keyname == <<"k", "e", "y", "n", "a", "m", "e">>
S_cfgname == <<"c", "f", "g", "n", "a", "m", "e">>
S_cfgName == <<"c", "f", "g", "N", "a", "m", "e">>
S_type == <<"t", "y", "p", "e">>
S_profileName == <<"p", "r", "o", "f", "i", "l", "e", "N", "a", "m", "e">>
S_profileXml == <<"p", "r", "o", "f", "i", "l", "e", "X", "m", "l">>
S_TransRouting == <<"T", "r", "a", "n", "s", "R", "o", "u", "t", "i", "n", "g">>
S_normalizationSettings ==
    <<"n", "o", "r", "m", "a", "l", "i", "z", "a", "t", "i", "o", "n",
      "S", "e", "t", "t", "i", "n", "g", "s">>
S_BdmObject == <<"B", "d", "m", "O", "b", "j", "e", "c", "t">>
S_OvldComponent == <<"O", "v", "l", "d", "C", "o", "m", "p", "o", "n", "e", "n", "t">>
S_Root == <<"R", "o", "o", "t">>
S_config == <<"c", "o", "n", "f", "i", "g">>
S_configuration == <<"c", "o", "n", "f", "i", "g", "u", "r", "a", "t", "i", "o", "n">>

priority_keywords ==
    << S_id,
       S_keyname,
       S_name,
       S_cfgname,
       S_cfgName,
       <<"s", "t", "a", "r", "t", "u", "p", "_", "p", "a", "r", "a", "m", "s">>,
       <<"p", "a", "r", "t", "i", "t", "i", "o", "n">>,
       <<"m", "a", "p", "N", "a", "m", "e">>,
       <<"s", "e", "r", "v", "e", "r", "N", "a", "m", "e">>,
       <<"r", "e", "a", "l", "m", "_", "n", "a", "m", "e">>,
       <<"i", "n", "t", "e", "r", "f", "a", "c", "e", "_", "i", "d">>,
       <<"v", "e", "n", "d", "o", "r", "I", "d">> >>

element_priority_keywords_map ==
    S_BdmObject :> <<S_name, S_id>> @@
    S_OvldComponent :> <<S_id, S_name>> @@
    <<"O", "v", "l", "d", "D", "r", "o", "p", "A", "c", "t", "i", "o", "n">>
        :> <<S_type>> @@
    <<"c", "o", "u", "n", "t", "e", "r", "P", "e", "e", "r">>
        :> << <<"a", "p", "p", "T", "y", "p", "e">> >> @@
    S_TransRouting :> <<S_profileName>> @@
    <<"c", "c", "s", "S", "e", "t", "t", "i", "n", "g", "s">>
        :> << <<"a", "p", "p", "_", "t", "y", "p", "e">> >> @@
    <<"d", "o", "m", "a", "i", "n", "B", "a", "s", "e", "d", "R", "e", "a", "l", "m",
      "S", "e", "t", "t", "i", "n", "g">>
        :> << <<"h", "o", "m", "e", "D", "o", "m", "a", "i", "n">> >> @@
    <<"p", "e", "r", "f", "M", "o", "n", "O", "b", "j", "e", "c", "t", "D", "e", "f">>
        :> <<S_type>> @@
    <<"L", "i", "X", "p", "E", "r", "r", "2", "C", "a", "u", "s", "e", "C", "o", "d", "e",
      "C", "o", "n", "f", "i", "g">>
        :> << <<"e", "r", "r", "o", "r", "_", "c", "o", "d", "e">> >> @@
    <<"L", "i", "X", "p", "T", "e", "m", "p", "l", "a", "t", "e", "C", "o", "n", "f", "i", "g">>
        :> << <<"s", "e", "r", "v", "i", "c", "e", "_", "n", "a", "m", "e">> >>

(***************************************************************************)
(* Trees: the values xml_to_dict builds.  A node is a leaf (a string), a   *)
(* map (an ordered mapping: a sequence of entries [key, val]) or a list    *)
(* (the values of repeated siblings).                                      *)
(***************************************************************************)

Leaf(s) == [k |-> "leaf", s |-> s, items |-> <<>>]
Map(entries) == [k |-> "map", s |-> <<>>, items |-> entries]
List(nodes) == [k |-> "list", s |-> <<>>, items |-> nodes]
Entry(key, val) == [key |-> key, val |-> val]

\* Python's None for a parent tag (and any other falsy tag).
NoTag == <<>>

(***************************************************************************)
(* sort_dict                                                               *)
(***************************************************************************)

\* The sort keys of the code, (0, i) and (1, key_lower) and the plain
\* key_lower of the first sort, in one shape <<class, index, string>>;
\* Python compares tuples component by component.
KeyLess(a, b) ==
    \/ a[1] < b[1]
    \/ a[1] = b[1] /\ a[2] < b[2]
    \/ a[1] = b[1] /\ a[2] = b[2] /\ StrLess(a[3], b[3])

\* sorted(): stable, so an element goes after every element not greater
\* than it.  Elements are records [sk, it] of sort key and item.
InsertStable(sorted, x) ==
    LET later == {j \in 1..Len(sorted) : KeyLess(x.sk, sorted[j].sk)}
        pos == IF later = {} THEN Len(sorted) + 1
               ELSE CHOOSE j \in later : \A m \in later : j <= m
    IN  SubSeq(sorted, 1, pos - 1) \o <<x>> \o SubSeq(sorted, pos, Len(sorted))

RECURSIVE SortedPrefix(_, _)
SortedPrefix(keyed, n) ==
    IF n = 0 THEN <<>> ELSE InsertStable(SortedPrefix(keyed, n - 1), keyed[n])

Sorted(keyed) ==
    LET r == SortedPrefix(keyed, Len(keyed)) IN [i \in 1..Len(keyed) |-> r[i].it]

\* A sorter that merges nothing and overrides nothing: the global list for
\* every parent tag.
PriorityListFor_GlobalOnly(parent_tag) == priority_keywords

\* A sorter that merges the lists: the parent's own list, then the global
\* one.
PriorityListFor_Merged(parent_tag) ==
    IF parent_tag # NoTag /\ parent_tag \in DOMAIN element_priority_keywords_map
    THEN element_priority_keywords_map[parent_tag] \o priority_keywords
    ELSE priority_keywords

\* The priority list the code consults for a parent tag (lines 116-126).
PriorityListFor(parent_tag) ==
    IF parent_tag # NoTag /\ parent_tag \in DOMAIN element_priority_keywords_map
    THEN element_priority_keywords_map[parent_tag]
    ELSE priority_keywords

\* The first position (from 0, as enumerate counts) of the list whose entry
\* equals the key case-insensitively, or -1.
PriorityIndex(key, plist) ==
    LET hits == {i \in 1..Len(plist) : Lower(plist[i]) = Lower(key)}
    IN  IF hits = {} THEN -1 ELSE (CHOOSE i \in hits : \A j \in hits : i <= j) - 1

priority_key_func(item, parent_tag) ==
    LET i == PriorityIndex(item.key, PriorityListFor(parent_tag))
    IN  IF i >= 0 THEN <<0, i, <<>>>> ELSE <<1, 0, Lower(item.key)>>

RECURSIVE sort_dict(_, _)
sort_dict(d, parent_tag) ==
    IF d.k = "map" THEN
        LET items == [i \in 1..Len(d.items) |->
                        Entry(d.items[i].key, sort_dict(d.items[i].val, d.items[i].key))]
            byLower == Sorted([i \in 1..Len(items) |->
                        [sk |-> <<0, 0, Lower(items[i].key)>>, it |-> items[i]]])
        IN  Map(Sorted([i \in 1..Len(byLower) |->
                        [sk |-> priority_key_func(byLower[i], parent_tag),
                         it |-> byLower[i]]]))
    ELSE IF d.k = "list" THEN
        List([i \in 1..Len(d.items) |-> sort_dict(d.items[i], parent_tag)])
    ELSE d

(***************************************************************************)
(* File contents as tokens.  A token is a start tag <tag> or               *)
(* <tag xmlns="ns">, an end tag </tag>, an empty-element tag <tag/>, a run *)
(* of character data as written in the file (entities not yet replaced), a *)
(* CDATA section <![CDATA[s]]>, the XML declaration or a comment.          *)
(***************************************************************************)

Open(tag) == [t |-> "open", tag |-> tag, ns |-> <<>>, s |-> <<>>]
OpenNs(tag, ns) == [t |-> "open", tag |-> tag, ns |-> ns, s |-> <<>>]
Close(tag) == [t |-> "close", tag |-> tag, ns |-> <<>>, s |-> <<>>]
Empty(tag) == [t |-> "empty", tag |-> tag, ns |-> <<>>, s |-> <<>>]
EmptyNs(tag, ns) == [t |-> "empty", tag |-> tag, ns |-> ns, s |-> <<>>]
Text(s) == [t |-> "text", tag |-> <<>>, ns |-> <<>>, s |-> s]
CData(s) == [t |-> "cdata", tag |-> <<>>, ns |-> <<>>, s |-> s]
Decl == [t |-> "decl", tag |-> <<>>, ns |-> <<>>, s |-> <<>>]
Comment == [t |-> "comment", tag |-> <<>>, ns |-> <<>>, s |-> <<>>]

\* \s* : character data that is all whitespace
IsSpace(s) == \A i \in 1..Len(s) : s[i] \in Whitespace
IsWs(tok) == tok.t = "text" /\ IsSpace(tok.s)

(***************************************************************************)
(* ET.parse: the element tree of a token sequence.  An element is          *)
(* [tag, text, kids], its tag in the parser's {uri}local form.             *)
(***************************************************************************)

\* The parser's replacement of the predefined entities in character data.
XmlUnescape(s) ==
    Replace(Replace(Replace(Replace(Replace(s,
        <<"&", "l", "t", ";">>, <<"<">>),
        <<"&", "g", "t", ";">>, <<">">>),
        <<"&", "q", "u", "o", "t", ";">>, <<"\"">>),
        <<"&", "a", "p", "o", "s", ";">>, <<"'">>),
        <<"&", "a", "m", "p", ";">>, <<"&">>)

\* The tag the parser reports for a local name in namespace ns.
ClarkTag(ns, tag) == IF ns = <<>> THEN tag ELSE <<"{">> \o ns \o <<"}">> \o tag

Element(tag, text, kids) == [tag |-> tag, text |-> text, kids |-> kids]

RECURSIVE ParseContent(_, _, _)
RECURSIVE ParseElement(_, _, _)
\* The content of an element from token i on: the text before the first
\* child (element.text), the children, and the index of the token that
\* ends the content.
ParseContent(toks, i, ns) ==
    IF i > Len(toks) THEN [ok |-> FALSE, text |-> <<>>, kids |-> <<>>, next |-> i]
    ELSE LET tok == toks[i] IN
        IF tok.t = "close" THEN [ok |-> TRUE, text |-> <<>>, kids |-> <<>>, next |-> i]
        ELSE IF tok.t = "cdata" /\ Contains(tok.s, <<"]", "]", ">">>) THEN
            \* the section ends at the first ]]>, and what follows it is not
            \* well-formed
            [ok |-> FALSE, text |-> <<>>, kids |-> <<>>, next |-> i]
        ELSE IF tok.t \in {"text", "cdata"} THEN
            LET rest == ParseContent(toks, i + 1, ns)
                here == IF tok.t = "cdata" THEN tok.s ELSE XmlUnescape(tok.s)
            IN  [rest EXCEPT !.text = here \o @]
        ELSE IF tok.t = "comment" THEN ParseContent(toks, i + 1, ns)
        ELSE IF tok.t \in {"open", "empty"} THEN
            LET e == ParseElement(toks, i, ns)
                rest == ParseContent(toks, e.next, ns)
            IN  IF ~e.ok THEN [ok |-> FALSE, text |-> <<>>, kids |-> <<>>, next |-> i]
                ELSE [ok |-> rest.ok, text |-> <<>>,
                      kids |-> <<e.elem>> \o rest.kids, next |-> rest.next]
        ELSE [ok |-> FALSE, text |-> <<>>, kids |-> <<>>, next |-> i]

ParseElement(toks, i, ns) ==
    LET tok == toks[i]
        here == IF tok.ns # <<>> THEN tok.ns ELSE ns
    IN  IF tok.t = "empty"
        THEN [ok |-> TRUE, elem |-> Element(ClarkTag(here, tok.tag), <<>>, <<>>),
              next |-> i + 1]
        ELSE LET c == ParseContent(toks, i + 1, here)
                 closed == c.ok /\ c.next <= Len(toks) /\ toks[c.next].t = "close"
                             /\ toks[c.next].tag = tok.tag
             IN  [ok |-> closed,
                  elem |-> Element(ClarkTag(here, tok.tag), c.text, c.kids),
                  next |-> c.next + 1]

\* The tokens before the root element: an optional declaration, which must
\* be the very first thing of the file, then comments and whitespace.
RECURSIVE PrologEnd(_, _)
PrologEnd(toks, i) ==
    IF i <= Len(toks) /\ (toks[i].t = "comment" \/ IsWs(toks[i])
                          \/ (toks[i].t = "decl" /\ i = 1))
    THEN PrologEnd(toks, i + 1) ELSE i

RECURSIVE OnlyMisc(_, _)
OnlyMisc(toks, i) ==
    i > Len(toks) \/ ((toks[i].t = "comment" \/ IsWs(toks[i])) /\ OnlyMisc(toks, i + 1))

\* ET.parse(input_file).getroot(): ok is FALSE where the parser raises
\* ParseError.
Parse(toks) ==
    LET i == PrologEnd(toks, 1) IN
        IF i > Len(toks) \/ toks[i].t \notin {"open", "empty"}
        THEN [ok |-> FALSE, root |-> Element(<<>>, <<>>, <<>>)]
        ELSE LET e == ParseElement(toks, i, <<>>)
             IN  [ok |-> e.ok /\ OnlyMisc(toks, e.next), root |-> e.elem]

(***************************************************************************)
(* xml_to_dict                                                             *)
(***************************************************************************)

\* A tag left as the parser reports it.
AfterLastBrace_Keep(tag) == tag

\* tag.split('}')[-1]: what follows the last closing brace.
RECURSIVE AfterLastBrace(_)
AfterLastBrace(tag) ==
    IF \E i \in 1..Len(tag) : tag[i] = "}"
    THEN AfterLastBrace(SubSeq(tag, (CHOOSE i \in 1..Len(tag) : tag[i] = "}"
                                        /\ \A j \in 1..(i - 1) : tag[j] # "}") + 1, Len(tag)))
    ELSE tag

\* An aggregation that puts the later sibling first.
AddChild_Prepend(result, tag, value) ==
    IF \E i \in 1..Len(result) : result[i].key = tag
    THEN [i \in 1..Len(result) |->
            IF result[i].key # tag THEN result[i]
            ELSE IF result[i].val.k = "list"
                 THEN Entry(tag, List(<<value>> \o result[i].val.items))
                 ELSE Entry(tag, List(<<value, result[i].val>>))]
    ELSE Append(result, Entry(tag, value))

\* result[tag] = value, or the promotion to a list and the append of lines
\* 58-62, on the entries built so far.
AddChild(result, tag, value) ==
    IF \E i \in 1..Len(result) : result[i].key = tag
    THEN [i \in 1..Len(result) |->
            IF result[i].key # tag THEN result[i]
            ELSE IF result[i].val.k = "list"
                 THEN Entry(tag, List(Append(result[i].val.items, value)))
                 ELSE Entry(tag, List(<<result[i].val, value>>))]
    ELSE Append(result, Entry(tag, value))

RECURSIVE xml_to_dict(_)
RECURSIVE DictOfChildren(_, _)
DictOfChildren(children, n) ==
    IF n = 0 THEN <<>>
    ELSE AddChild(DictOfChildren(children, n - 1),
                  AfterLastBrace(children[n].tag), xml_to_dict(children[n]))

xml_to_dict(element) ==
    IF element.kids = <<>>
    THEN Leaf(IF element.text # <<>> THEN Strip(element.text) ELSE <<>>)
    ELSE Map(DictOfChildren(element.kids, Len(element.kids)))

(***************************************************************************)
(* dict_to_xml and prettify: the tree printed as tokens                    *)
(***************************************************************************)

\* What the serializer and the pretty printer do to character data: & < >
\* and " become entities, and prettify turns &quot; back into ".
Escape(s) ==
    Replace(
        Replace(Replace(Replace(Replace(s,
            <<"&">>, <<"&", "a", "m", "p", ";">>),
            <<"<">>, <<"&", "l", "t", ";">>),
            <<"\"">>, <<"&", "q", "u", "o", "t", ";">>),
            <<">">>, <<"&", "g", "t", ";">>),
        <<"&", "q", "u", "o", "t", ";">>, <<"\"">>)

\* toprettyxml(indent="    "): a line break and the indentation of a line.
RECURSIVE Spaces(_)
Spaces(n) == IF n = 0 THEN <<>> ELSE <<" ", " ", " ", " ">> \o Spaces(n - 1)

NewLine(depth) == Text(<<"\n">> \o Spaces(depth))

\* The start tag of dict_to_xml's element: the namespace attribute only
\* where the caller passes one.
StartTag(tag, namespace) == IF namespace # <<>> THEN OpenNs(tag, namespace) ELSE Open(tag)

RECURSIVE dict_to_xml(_, _, _, _)
RECURSIVE ChildrenXml(_, _, _)
RECURSIVE ItemsXml(_, _, _, _)
\* One child per item of a list value, all with the key as tag.
ItemsXml(key, nodes, n, depth) ==
    IF n = 0 THEN <<>>
    ELSE ItemsXml(key, nodes, n - 1, depth) \o dict_to_xml(key, nodes[n], <<>>, depth)

\* The children of a mapping, in the mapping's order.
ChildrenXml(entries, n, depth) ==
    IF n = 0 THEN <<>>
    ELSE ChildrenXml(entries, n - 1, depth) \o
         (IF entries[n].val.k = "list"
          THEN ItemsXml(entries[n].key, entries[n].val.items,
                        Len(entries[n].val.items), depth)
          ELSE dict_to_xml(entries[n].key, entries[n].val, <<>>, depth))

\* The printed lines of the element dict_to_xml(tag, d, namespace) builds,
\* at nesting depth `depth`, each line ended by the line break that leads to
\* the next line's indentation being written by that line itself.
dict_to_xml(tag, d, namespace, depth) ==
    IF d.k = "map" THEN
        <<NewLine(depth), StartTag(tag, namespace)>>
            \o ChildrenXml(d.items, Len(d.items), depth + 1)
            \o <<NewLine(depth), Close(tag)>>
    ELSE IF d.s = <<>> THEN
        <<NewLine(depth)>> \o
        <<EmptyNs(tag, namespace)>>
    ELSE <<NewLine(depth), StartTag(tag, namespace), Text(Escape(d.s)), Close(tag)>>

\* prettify(dict_to_xml(...)): the printed text without the declaration
\* line; every line ends with a line break.
prettify(tag, d, namespace) ==
    Tail(dict_to_xml(tag, d, namespace, 0)) \o <<Text(<<"\n">>)>>

(***************************************************************************)
(* Markup as the regular expressions see it                                *)
(***************************************************************************)

S_colon == <<":">>
S_equals == <<"=">>
S_cdata_open == <<"<", "!", "[", "C", "D", "A", "T", "A", "[">>
S_cdata_close == <<"]", "]", ">">>
S_lt == <<"&", "l", "t", ";">>
S_gt == <<"&", "g", "t", ";">>

\* What stands between < and > in a tag: the name, and the namespace
\* attribute of a start tag that has one.
TagText(tok) ==
    LET attr == IF tok.ns = <<>> THEN <<>>
                ELSE <<" ", "x", "m", "l", "n", "s", "=", "\"">> \o tok.ns \o <<"\"">>
    IN  IF tok.t = "close" THEN <<"/">> \o tok.tag
        ELSE IF tok.t = "empty" THEN tok.tag \o attr \o <<"/">>
        ELSE tok.tag \o attr

\* <([^>]+)> : a start tag, an end tag or an empty-element tag.
IsMarkup(tok) == tok.t \in {"open", "close", "empty"}

\* s.split()[0]: the first whitespace-separated word.
RECURSIVE UpToSpace(_)
UpToSpace(s) ==
    IF s = <<>> \/ s[1] \in Whitespace THEN <<>> ELSE <<s[1]>> \o UpToSpace(Tail(s))

FirstWord(s) == UpToSpace(LStrip(s))

\* s.split(sep) for a one-character separator.
RECURSIVE Split(_, _)
Split(s, sep) ==
    IF \E i \in 1..Len(s) : s[i] = sep
    THEN LET i == CHOOSE i \in 1..Len(s) : s[i] = sep /\ \A j \in 1..(i - 1) : s[j] # sep
         IN  <<SubSeq(s, 1, i - 1)>> \o Split(SubSeq(s, i + 1, Len(s)), sep)
    ELSE <<s>>

\* The first end tag </tag> after token i, or 0.
FirstClose(toks, i, tag) ==
    LET js == {j \in (i + 1)..Len(toks) : toks[j].t = "close" /\ toks[j].tag = tag}
    IN  IF js = {} THEN 0 ELSE CHOOSE j \in js : \A m \in js : j <= m

\* The index of the CDATA section that follows token i after optional
\* whitespace ( >\s*<![CDATA[ ), or 0.
RECURSIVE CDataAfter(_, _)
CDataAfter(toks, i) ==
    IF i + 1 > Len(toks) THEN 0
    ELSE IF toks[i + 1].t = "cdata" THEN i + 1
    ELSE IF IsWs(toks[i + 1]) THEN CDataAfter(toks, i + 1)
    ELSE 0

\* re.finditer(r'<([^>]+)>\s*<!\[CDATA\[(.*?)\]\]>', content): the pairs
\* (tag, payload), in document order.
RECURSIVE CDataMatches(_, _)
CDataMatches(toks, i) ==
    IF i > Len(toks) THEN <<>>
    ELSE IF IsMarkup(toks[i]) /\ CDataAfter(toks, i) # 0
         THEN <<[tag |-> Strip(TagText(toks[i])), content |-> toks[CDataAfter(toks, i)].s]>>
                \o CDataMatches(toks, CDataAfter(toks, i) + 1)
         ELSE CDataMatches(toks, i + 1)

\* re.findall(r'<(a|b|...)>([^<]+)</\1>', content): the pairs (name, value)
\* of the start tags named in `names` with non-empty text and their own end
\* tag, in document order.
RECURSIVE Identifiers(_, _, _)
Identifiers(toks, i, names) ==
    IF i + 2 > Len(toks) THEN <<>>
    ELSE IF /\ toks[i].t = "open" /\ toks[i].ns = <<>> /\ toks[i].tag \in names
            /\ toks[i + 1].t = "text" /\ toks[i + 1].s # <<>>
            /\ toks[i + 2].t = "close" /\ toks[i + 2].tag = toks[i].tag
         THEN <<[name |-> toks[i].tag, value |-> toks[i + 1].s]>>
                \o Identifiers(toks, i + 3, names)
         ELSE Identifiers(toks, i + 1, names)

\* tag + ":name=value" for every identifier
RECURSIVE WithIdentifiers(_, _, _)
WithIdentifiers(sig, ids, n) ==
    IF n = 0 THEN sig
    ELSE WithIdentifiers(sig, ids, n - 1)
            \o S_colon \o ids[n].name \o S_equals \o ids[n].value

(***************************************************************************)
(* find_cdata_sections                                                     *)
(***************************************************************************)

CDataIdentifierNames == {S_profileName, S_name, S_id, S_keyname, S_cfgname, S_cfgName}

\* The catalog entries of one element block: (element_context,
\* cdata_element_tag, cdata_content) for every CDATA section in it.
BlockCData(element_tag, element_content) ==
    LET ms == CDataMatches(element_content, 1)
        ids == Identifiers(element_content, 1, CDataIdentifierNames)
        context_signature == WithIdentifiers(element_tag, ids, Len(ids))
    IN  [m \in 1..Len(ms) |->
            [context |-> context_signature \o S_colon \o ms[m].tag,
             tag |-> ms[m].tag, content |-> ms[m].content]]

\* re.finditer(r'<([^\s>]+)[^>]*>([\s\S]*?)</\1>', content): a block runs
\* from a start tag to the first end tag of the same name, and the search
\* goes on after that end tag.
RECURSIVE find_cdata_from(_, _)
find_cdata_from(toks, i) ==
    IF i > Len(toks) THEN <<>>
    ELSE IF toks[i].t = "open" /\ FirstClose(toks, i, toks[i].tag) # 0
         THEN LET j == FirstClose(toks, i, toks[i].tag)
              IN  BlockCData(toks[i].tag, SubSeq(toks, i + 1, j - 1))
                    \o find_cdata_from(toks, j + 1)
         ELSE find_cdata_from(toks, i + 1)

find_cdata_sections(toks) == find_cdata_from(toks, 1)

(***************************************************************************)
(* find_xml_declaration_escaped_content                                    *)
(***************************************************************************)

S_xmldecl ==
    <<"&", "l", "t", ";", "?", "x", "m", "l", " ",
      "v", "e", "r", "s", "i", "o", "n", "=">>

\* The three alternatives of group 2: text that holds an escaped
\* declaration with a double quote, or starts with an escaped declaration.
HasEscapedDecl(s) == Contains(s, S_xmldecl \o <<"\"">>) \/ StartsWith(s, S_xmldecl)

\* The first end tag after token i, or 0 ( .*?</[^>]*> ).
AnyCloseAfter(toks, i) ==
    LET js == {j \in (i + 1)..Len(toks) : toks[j].t = "close"}
    IN  IF js = {} THEN 0 ELSE CHOOSE j \in js : \A m \in js : j <= m

\* d[key] = ... on the keys of a dict in insertion order.
AddKey(keys, key) == IF \E i \in 1..Len(keys) : keys[i] = key THEN keys ELSE Append(keys, key)

\* The keys of the dictionary the scan returns, in insertion order.  (The
\* content it stores under each key is never read by process_xml_file.)
RECURSIVE find_decl_from(_, _, _)
find_decl_from(toks, i, keys) ==
    IF i + 1 > Len(toks) THEN keys
    ELSE IF /\ IsMarkup(toks[i]) /\ toks[i + 1].t = "text" /\ HasEscapedDecl(toks[i + 1].s)
            /\ AnyCloseAfter(toks, i + 1) # 0
         THEN find_decl_from(toks, AnyCloseAfter(toks, i + 1) + 1,
                             AddKey(keys, Strip(TagText(toks[i]))))
         ELSE find_decl_from(toks, i + 1, keys)

find_xml_declaration_escaped_content(toks) == find_decl_from(toks, 1, <<>>)

(***************************************************************************)
(* find_xml_content_in_elements                                            *)
(***************************************************************************)

ContentIdentifierNames == {S_profileName, S_name, S_id}

\* [^<]*?&lt;[^>]*?&gt;[^<]*? : an escaped < with an escaped > after it.
HasLtThenGt(s) ==
    \E i \in 1..Len(s) : HasAt(s, i, S_lt) /\ \E j \in (i + 4)..Len(s) : HasAt(s, j, S_gt)

\* re.finditer(r'<([^>]+)>([^<]*?&lt;[^>]*?&gt;[^<]*?)</\1>', content)
RECURSIVE EscapedMatches(_, _)
EscapedMatches(toks, i) ==
    IF i + 2 > Len(toks) THEN <<>>
    ELSE IF /\ toks[i].t = "open" /\ toks[i].ns = <<>>
            /\ toks[i + 1].t = "text" /\ HasLtThenGt(toks[i + 1].s)
            /\ toks[i + 2].t = "close" /\ toks[i + 2].tag = toks[i].tag
         THEN <<[tag |-> Strip(TagText(toks[i])), content |-> toks[i + 1].s]>>
                \o EscapedMatches(toks, i + 3)
         ELSE EscapedMatches(toks, i + 1)

\* xml_content_map[key] = (kind, content): a new key goes to the end, a
\* known key keeps its place.
SetEntry(map, key, kind, content) ==
    LET e == [key |-> key, kind |-> kind, content |-> content] IN
        IF \E i \in 1..Len(map) : map[i].key = key
        THEN [i \in 1..Len(map) |-> IF map[i].key = key THEN e ELSE map[i]]
        ELSE Append(map, e)

RECURSIVE SetEntries(_, _, _, _, _)
SetEntries(map, context_key, kind, ms, n) ==
    IF n = 0 THEN map
    ELSE SetEntry(SetEntries(map, context_key, kind, ms, n - 1),
                  context_key \o S_colon \o ms[n].tag, kind, ms[n].content)

\* One instance of a target element: its CDATA sections, then its escaped
\* contents, recorded under target:identifiers:tag.
ElementContent(map, target_element, element_content) ==
    LET ids == Identifiers(element_content, 1, ContentIdentifierNames)
        context_key == WithIdentifiers(target_element, ids, Len(ids))
        cdata_matches == CDataMatches(element_content, 1)
        escaped_matches == EscapedMatches(element_content, 1)
    IN  SetEntries(
            SetEntries(map, context_key, "cdata", cdata_matches, Len(cdata_matches)),
            context_key, "escaped", escaped_matches, Len(escaped_matches))

\* <target[^>]*> : a start tag or an empty-element tag that starts with the
\* target's name.
OpensWith(tok, target) == tok.t \in {"open", "empty"} /\ StartsWith(TagText(tok), target)

\* re.finditer of <target[^>]*>(.*?)</target> with DOTALL over the file.
RECURSIVE TargetFrom(_, _, _, _)
TargetFrom(map, toks, i, target) ==
    IF i > Len(toks) THEN map
    ELSE IF OpensWith(toks[i], target) /\ FirstClose(toks, i, target) # 0
         THEN LET j == FirstClose(toks, i, target)
              IN  TargetFrom(ElementContent(map, target, SubSeq(toks, i + 1, j - 1)),
                             toks, j + 1, target)
         ELSE TargetFrom(map, toks, i + 1, target)

RECURSIVE find_xml_content_in_elements(_, _, _)
find_xml_content_in_elements(toks, target_elements, n) ==
    IF n = 0 THEN <<>>
    ELSE TargetFrom(find_xml_content_in_elements(toks, target_elements, n - 1),
                    toks, 1, target_elements[n])

\* The tags before the first colon of the catalog's contexts, with
\* TransRouting and normalizationSettings: the set special_elements is
\* built from (lines 365-374).
SpecialElementSet(cdata_sections) ==
    {Split(cdata_sections[i].context, ":")[1] : i \in 1..Len(cdata_sections)}
        \cup {S_TransRouting, S_normalizationSettings}

\* list(set(...)): the orders in which the set may be listed.
Orderings(set) ==
    {q \in [1..Cardinality(set) -> set] : \A i, j \in DOMAIN q : i # j => q[i] # q[j]}

(***************************************************************************)
(* The reinsertion passes, on the printed tokens                           *)
(***************************************************************************)

\* The unescaping of lines 496-500, 550-554 and 577-581.
CodeUnescape(content) ==
    Replace(Replace(Replace(Replace(Replace(Replace(Replace(Replace(content,
        S_lt, <<"<">>),
        S_gt, <<">">>),
        <<"&", "a", "m", "p", ";", "l", "t", ";">>, S_lt),
        <<"&", "a", "m", "p", ";", "g", "t", ";">>, S_gt),
        <<"&", "q", "u", "o", "t", ";">>, <<"\"">>),
        <<"&", "a", "p", "o", "s", ";">>, <<"'">>),
        <<"&", "a", "m", "p", ";", "q", "u", "o", "t", ";">>, <<"\"">>),
        <<"&", "a", "m", "p", ";">>, <<"&">>)

\* The end of a match of <tag>([^<]*)</[^>]*> that starts at token i: the
\* index of its end tag, or 0.  `same` asks for the end tag </tag> of pass 3.
LeafEnd(toks, i, element_tag, same) ==
    LET j == IF i + 1 <= Len(toks) /\ toks[i + 1].t = "text" THEN i + 2 ELSE i + 1 IN
        IF /\ toks[i].t = "open" /\ TagText(toks[i]) = element_tag
           /\ j <= Len(toks) /\ toks[j].t = "close"
           /\ (same => toks[j].tag = element_tag)
        THEN j ELSE 0

\* The text group 1 of that match holds.
LeafText(toks, i, j) == IF j = i + 2 THEN toks[i + 1].s ELSE <<>>

\* re.sub(f'<{element_tag}>([^<]*)</[^>]*>', create_cdata_replacement, text):
\* every match becomes <element_tag><![CDATA[...]]></first word of
\* element_tag>; the payload is `content`, or the unescaped text of the
\* match where `fromMatch` holds (pass 2).
RECURSIVE SubLeaf(_, _, _, _, _, _)
SubLeaf(toks, i, element_tag, content, fromMatch, same) ==
    IF i > Len(toks) THEN <<>>
    ELSE LET j == LeafEnd(toks, i, element_tag, same) IN
        IF j # 0
        THEN <<toks[i],
               CData(IF fromMatch THEN CodeUnescape(LeafText(toks, i, j)) ELSE content),
               Close(FirstWord(element_tag))>>
                \o SubLeaf(toks, j + 1, element_tag, content, fromMatch, same)
        ELSE <<toks[i]>> \o SubLeaf(toks, i + 1, element_tag, content, fromMatch, same)

\* . does not match a line break: the tokens a match of (.*?) may run over.
OnOneLine(tok) == \A k \in 1..Len(tok.s) : tok.s[k] # "\n"

\* The end tag </parent> that ends a match of <parent[^>]*>(.*?)</parent>
\* starting at token i, or 0: no line break on the way.
RECURSIVE ParentEnd(_, _, _)
ParentEnd(toks, j, parent_tag) ==
    IF j > Len(toks) \/ ~OnOneLine(toks[j]) THEN 0
    ELSE IF toks[j].t = "close" /\ toks[j].tag = parent_tag THEN j
    ELSE ParentEnd(toks, j + 1, parent_tag)

\* re.finditer(parent_pattern, pretty_xml_output): the contents
\* (group 1) of the matches, in order.
RECURSIVE ParentContents(_, _, _)
ParentContents(toks, i, parent_tag) ==
    IF i > Len(toks) THEN <<>>
    ELSE IF OpensWith(toks[i], parent_tag) /\ ParentEnd(toks, i + 1, parent_tag) # 0
         THEN LET j == ParentEnd(toks, i + 1, parent_tag)
              IN  <<SubSeq(toks, i + 1, j - 1)>> \o ParentContents(toks, j + 1, parent_tag)
         ELSE ParentContents(toks, i + 1, parent_tag)

\* re.search(f'<{id_type}>{value}</{id_type}>', parent_content)
HasIdentifier(parent_content, id_type, id_value) ==
    \E i \in 1..(Len(parent_content) - 2) :
        /\ parent_content[i] = Open(id_type)
        /\ parent_content[i + 1] = Text(id_value)
        /\ parent_content[i + 2] = Close(id_type)

\* is_matching_element: every identifier of the form name=value is a field
\* of the parent content.
IsMatchingElement(parent_content, identifiers) ==
    \A n \in 1..Len(identifiers) :
        LET id_parts == Split(identifiers[n], "=") IN
            Len(id_parts) = 2 => HasIdentifier(parent_content, id_parts[1], id_parts[2])

\* The body of the loop over the parent matches (lines 445-473 and
\* 524-566): the matches are those of the text the loop started on.
RECURSIVE InParents(_, _, _, _, _, _, _, _)
InParents(out, contents, n, parent_tag, identifiers, element_tag, content, same) ==
    IF n = 0 THEN out
    ELSE LET before == InParents(out, contents, n - 1, parent_tag, identifiers,
                                 element_tag, content, same)
             parent_content == contents[n]
             modified_parent_content ==
                 SubLeaf(parent_content, 1, element_tag, content, FALSE, same)
         IN  IF IsMatchingElement(parent_content, identifiers)
             THEN Replace(before,
                          <<Open(parent_tag)>> \o parent_content \o <<Close(parent_tag)>>,
                          <<Open(parent_tag)>> \o modified_parent_content
                                \o <<Close(parent_tag)>>)
             ELSE before

\* cdata_by_tag: the tags of the catalog in order of first appearance, and
\* the entries of a tag in catalog order.
RECURSIVE TagsOf(_, _)
TagsOf(cdata_sections, n) ==
    IF n = 0 THEN <<>> ELSE AddKey(TagsOf(cdata_sections, n - 1), cdata_sections[n].tag)

cdata_by_tag_keys(cdata_sections) == TagsOf(cdata_sections, Len(cdata_sections))

context_content_pairs(cdata_sections, element_tag) ==
    SelectSeq(cdata_sections, LAMBDA e : e.tag = element_tag)

\* Lines 430-481 for one entry of a tag with several CDATA sections.  The
\* context always splits into at least two parts, so the branch of lines
\* 474-481 is never taken.
RestoreByContext(out, entry, element_tag) ==
    LET context_parts == Split(entry.context, ":")
        parent_tag == context_parts[1]
        identifiers == SubSeq(context_parts, 2, Len(context_parts) - 1)
        contents == ParentContents(out, 1, parent_tag)
    IN  IF Len(context_parts) > 1
        THEN InParents(out, contents, Len(contents), parent_tag, identifiers,
                       element_tag, entry.content, FALSE)
        ELSE SubLeaf(out, 1, element_tag, entry.content, FALSE, FALSE)

RECURSIVE RestoreEach(_, _, _, _)
RestoreEach(out, pairs, n, element_tag) ==
    IF n = 0 THEN out
    ELSE RestoreByContext(RestoreEach(out, pairs, n - 1, element_tag), pairs[n], element_tag)

\* A restoration that ignores the contexts: every leaf of the tag receives
\* the first payload of the catalog.
RestoreTag_Simple(out, pairs, element_tag) ==
    SubLeaf(out, 1, element_tag, pairs[1].content, FALSE, FALSE)

\* Lines 418-481 for one tag of cdata_by_tag.
RestoreTag(out, pairs, element_tag) ==
    IF Len(pairs) = 1
    THEN SubLeaf(out, 1, element_tag, pairs[1].content, FALSE, FALSE)
    ELSE RestoreEach(out, pairs, Len(pairs), element_tag)

\* Pass 1, lines 409-481.
RECURSIVE RestoreTags(_, _, _, _)
RestoreTags(out, cdata_sections, tags, n) ==
    IF n = 0 THEN out
    ELSE RestoreTag(RestoreTags(out, cdata_sections, tags, n - 1),
                    context_content_pairs(cdata_sections, tags[n]), tags[n])

RestoreCData(out, cdata_sections) ==
    LET tags == cdata_by_tag_keys(cdata_sections)
    IN  RestoreTags(out, cdata_sections, tags, Len(tags))

\* Pass 2, lines 483-505.
RECURSIVE PromoteFrom(_, _, _, _)
PromoteFrom(out, escaped_xml_elements, handled, n) ==
    IF n = 0 THEN out
    ELSE LET before == PromoteFrom(out, escaped_xml_elements, handled, n - 1)
             element_tag == escaped_xml_elements[n]
         IN  IF \E i \in 1..Len(handled) : handled[i] = element_tag
             THEN before
             ELSE SubLeaf(before, 1, element_tag, <<>>, TRUE, FALSE)

PromoteEscapedDecl(out, escaped_xml_elements, cdata_sections) ==
    PromoteFrom(out, escaped_xml_elements, cdata_by_tag_keys(cdata_sections),
                Len(escaped_xml_elements))

\* Pass 3, lines 507-566, for one entry of xml_content_in_special_elements.
RefineEntry(out, e) ==
    LET parts == Split(e.key, ":")
        parent_element == parts[1]
        xml_tag == parts[Len(parts)]
        identifiers == SelectSeq(SubSeq(parts, 2, Len(parts) - 1),
                                 LAMBDA part : \E i \in 1..Len(part) : part[i] = "=")
        contents == ParentContents(out, 1, parent_element)
        content == IF e.kind = "cdata" THEN e.content ELSE CodeUnescape(e.content)
    IN  InParents(out, contents, Len(contents), parent_element, identifiers,
                  xml_tag, content, TRUE)

RECURSIVE RefineSpecial(_, _, _)
RefineSpecial(out, map, n) ==
    IF n = 0 THEN out ELSE RefineEntry(RefineSpecial(out, map, n - 1), map[n])

\* convert_escaped_xml_to_cdata's test (lines 575-584) on the text of a match.
LooksLikeXml(unescaped) ==
    /\ Contains(unescaped, <<"<">>) /\ Contains(unescaped, <<">">>)
    /\ (Contains(unescaped, <<"<", "/">>) \/ Contains(unescaped, <<"/", ">">>))

\* convert_escaped_xml_to_cdata (lines 570-590) on a match with groups
\* element_tag and content, written as characters.
ConvertedText(element_tag, content, whole) ==
    LET unescaped == CodeUnescape(content) IN
        IF Contains(content, S_lt) /\ Contains(content, S_gt) /\ LooksLikeXml(unescaped)
        THEN <<"<">> \o element_tag \o <<">">> \o S_cdata_open \o unescaped
                \o S_cdata_close \o <<"<", "/">> \o FirstWord(element_tag) \o <<">">>
        ELSE whole

\* The first position from i on of a character of the set, or 0.
FirstAt(s, i, chars) ==
    LET at == {j \in i..Len(s) : s[j] \in chars}
    IN  IF at = {} THEN 0 ELSE CHOOSE j \in at : \A m \in at : j <= m

\* [^<>]*?&lt;[^<>]*?&gt;[^<]*? on a text without <: an escaped <, an
\* escaped > after it, and no > before that one.
IsGroupTwo(content) ==
    \E a \in 1..Len(content) :
        /\ HasAt(content, a, S_lt)
        /\ \E b \in (a + 4)..Len(content) :
                /\ HasAt(content, b, S_gt)
                /\ \A m \in 1..(b - 1) : content[m] # ">"

\* The pattern of pass 4 substituted in a run of characters, from
\* position i on: the matches that lie inside a CDATA section.
RECURSIVE SweepText(_, _)
SweepText(s, i) ==
    IF i > Len(s) THEN <<>>
    ELSE LET k == IF s[i] = "<" THEN FirstAt(s, i + 1, {">"}) ELSE 0
             q == IF k = 0 THEN 0 ELSE FirstAt(s, k + 1, {"<"})
             e == IF q = 0 THEN 0 ELSE FirstAt(s, q + 2, {">"})
         IN  IF /\ k > i + 1 /\ q # 0 /\ e # 0 /\ s[q + 1] = "/"
                /\ IsGroupTwo(SubSeq(s, k + 1, q - 1))
             THEN ConvertedText(SubSeq(s, i + 1, k - 1), SubSeq(s, k + 1, q - 1),
                                SubSeq(s, i, e))
                    \o SweepText(s, e + 1)
             ELSE <<s[i]>> \o SweepText(s, i + 1)

\* Pass 4 on a CDATA section <![CDATA[payload]]> of the text: the payload
\* it is left with.  (Every < of a payload has its > in the payload, so a
\* match ends before the section does.)
SweepPayload(payload) ==
    LET swept == SweepText(S_cdata_open \o payload \o S_cdata_close, 1)
    IN  SubSeq(swept, Len(S_cdata_open) + 1, Len(swept) - Len(S_cdata_close))

\* Pass 4, lines 568-594: re.sub of
\* <([^>]+)>([^<>]*?&lt;[^<>]*?&gt;[^<]*?)</[^>]*> with
\* convert_escaped_xml_to_cdata.
RECURSIVE FallbackSweep(_, _)
FallbackSweep(toks, i) ==
    IF i > Len(toks) THEN <<>>
    ELSE IF toks[i].t = "cdata"
         THEN <<CData(SweepPayload(toks[i].s))>> \o FallbackSweep(toks, i + 1)
    ELSE IF /\ i + 2 <= Len(toks) /\ toks[i].t = "open"
            /\ toks[i + 1].t = "text" /\ HasLtThenGt(toks[i + 1].s)
            /\ toks[i + 2].t = "close"
         THEN LET content == toks[i + 1].s
                  unescaped == CodeUnescape(content)
              IN  (IF /\ Contains(content, S_lt) /\ Contains(content, S_gt)
                      /\ LooksLikeXml(unescaped)
                   THEN <<toks[i], CData(unescaped), Close(FirstWord(TagText(toks[i])))>>
                   ELSE SubSeq(toks, i, i + 2))
                  \o FallbackSweep(toks, i + 3)
         ELSE <<toks[i]>> \o FallbackSweep(toks, i + 1)

(***************************************************************************)
(* State                                                                   *)
(***************************************************************************)

VARIABLES
    \* the sorter applied to a tree (SortSpec)
    sort_in,            \* d
    sort_parent,        \* parent_tag
    sort_out,           \* sort_dict(d, parent_tag)
    sort_again,         \* sort_dict of sort_out
    sort_pc,
    \* the batch driver (Spec)
    fs,                 \* the files that exist: path -> content
    dirs,               \* the directories that exist
    args,               \* args.input_files and args.output
    run,                \* which run of the tool this is
    idx,                \* the input file the loop is at
    pc,                 \* where the run is
    trail,              \* the steps of process_xml_file done for this file
    err,                \* the exception being raised, if any
    output_filename,
    cdata_sections,
    escaped_xml_elements,
    xml_content_in_special_elements,
    root,               \* tree.getroot()
    namespace,
    sorted_dict,
    pretty_xml_output,
    reports,            \* what the driver has printed, one record per file
    writes              \* the writes of output files so far

sortVars == <<sort_in, sort_parent, sort_out, sort_again, sort_pc>>
fileVars == <<cdata_sections, escaped_xml_elements, xml_content_in_special_elements,
              root, namespace, sorted_dict, pretty_xml_output>>
mainVars == <<fs, dirs, args, run, idx, pc, trail, err, output_filename, fileVars,
              reports, writes>>
vars == <<sortVars, mainVars>>

\* Python's None for a value not yet computed.
None == <<>>

\* A path: the directory, the base name with the timestamps that runs of
\* the tool have added to it (sorted_sorted_x_1_2 is base x, stamps 1, 2)
\* and the extension.
Path(dir, base, ext) == [dir |-> dir, base |-> base, stamps |-> <<>>, ext |-> ext]
NoPath == Path("", "", "")

\* args.output when no output directory is given.
NoDir == ""
NoElement == Element(<<>>, <<>>, <<>>)
NoTree == Leaf(<<>>)

(***************************************************************************)
(* SortSpec: sort_dict applied to bounded trees                            *)
(***************************************************************************)

MaxKeys == 3

SortKeys ==
    {S_id, <<"I", "D">>, S_name, S_cfgName, S_cfgname, S_profileName,
     <<"a">>, <<"b">>, <<"B">>}

SortParents == {NoTag, S_Root, S_TransRouting, S_BdmObject, S_OvldComponent}

\* The orders in which up to MaxKeys different keys can appear in a mapping.
KeyOrders ==
    UNION {{q \in [1..n -> SortKeys] : \A i, j \in 1..n : i # j => q[i] # q[j]}
            : n \in 1..MaxKeys}

\* A mapping with the given keys in the given order; the value of a key is
\* its own name as text.
FlatMap(keys) == Map([i \in 1..Len(keys) |-> Entry(keys[i], Leaf(keys[i]))])

Reverse(q) == [i \in 1..Len(q) |-> q[Len(q) + 1 - i]]

\* The trees the sorter is given: the mapping itself, the mapping as the
\* only child of an element `tag`, and two such siblings (a list).
SortTrees(keys, tag) ==
    IF tag = NoTag THEN {FlatMap(keys)}
    ELSE {FlatMap(keys),
          Map(<<Entry(<<"z">>, Leaf(<<>>)), Entry(tag, FlatMap(keys))>>),
          Map(<<Entry(tag, List(<<FlatMap(keys), FlatMap(Reverse(keys))>>))>>)}

IdleMain ==
    /\ fs = <<>> /\ dirs = {} /\ args = [input_files |-> <<>>, output |-> NoDir]
    /\ run = 0 /\ idx = 0 /\ pc = "idle" /\ trail = <<>> /\ err = "none"
    /\ output_filename = NoPath
    /\ cdata_sections = <<>> /\ escaped_xml_elements = <<>>
    /\ xml_content_in_special_elements = <<>>
    /\ root = NoElement /\ namespace = None /\ sorted_dict = NoTree
    /\ pretty_xml_output = <<>>
    /\ reports = <<>> /\ writes = <<>>

SortInit ==
    /\ sort_parent \in SortParents
    /\ \E keys \in KeyOrders : sort_in \in SortTrees(keys, sort_parent)
    /\ sort_out = NoTree /\ sort_again = NoTree /\ sort_pc = "start"
    /\ IdleMain

SortOnce ==
    /\ sort_pc = "start"
    /\ sort_out' = sort_dict(sort_in, sort_parent)
    /\ sort_pc' = "sorted"
    /\ UNCHANGED <<sort_in, sort_parent, sort_again, mainVars>>

SortTwice ==
    /\ sort_pc = "sorted"
    /\ sort_again' = sort_dict(sort_out, sort_parent)
    /\ sort_pc' = "resorted"
    /\ UNCHANGED <<sort_in, sort_parent, sort_out, mainVars>>

SortNext == SortOnce \/ SortTwice

SortSpec == SortInit /\ [][SortNext]_vars

(***************************************************************************)
(* Properties of the sorter                                                *)
(***************************************************************************)

\* The priority list the documentation resolves for a parent tag.
DocumentedList(parent_tag) ==
    IF parent_tag \in DOMAIN element_priority_keywords_map
    THEN element_priority_keywords_map[parent_tag] ELSE priority_keywords

IsPriorityKey(key, plist) == \E i \in 1..Len(plist) : Lower(plist[i]) = Lower(key)

FirstPosition(key, plist) ==
    CHOOSE i \in 1..Len(plist) :
        Lower(plist[i]) = Lower(key) /\ \A j \in 1..(i - 1) : Lower(plist[j]) # Lower(key)

\* Priority keys first, in list-position order, then the other keys in
\* ascending case-insensitive alphabetical order.
KeysInOrder(entries, plist) ==
    \A i, j \in 1..Len(entries) : i < j =>
        LET a == entries[i].key
            b == entries[j].key
        IN  IF IsPriorityKey(a, plist)
            THEN IsPriorityKey(b, plist) => FirstPosition(a, plist) <= FirstPosition(b, plist)
            ELSE ~IsPriorityKey(b, plist) /\ ~StrLess(Lower(b), Lower(a))

\* Every mapping of the tree is in order, each under its own parent tag: a
\* value's parent is its key, and the items of a list share the list's.
RECURSIVE TreeInOrder(_, _)
TreeInOrder(node, parent_tag) ==
    IF node.k = "map" THEN
        /\ KeysInOrder(node.items, DocumentedList(parent_tag))
        /\ \A i \in 1..Len(node.items) : TreeInOrder(node.items[i].val, node.items[i].key)
    ELSE IF node.k = "list" THEN
        \A i \in 1..Len(node.items) : TreeInOrder(node.items[i], parent_tag)
    ELSE TRUE

\* The keys of a mapping, as a set.
KeySet(node) == {node.items[i].key : i \in 1..Len(node.items)}

\* C1: sort_dict returns every mapping with its priority keys (of the list
\* resolved for the parent tag) first, in list order, then the remaining
\* keys in ascending case-insensitive alphabetical order, and with the keys
\* it was given.
C1_PriorityThenAlphabetical ==
    sort_pc # "start" =>
        /\ TreeInOrder(sort_out, sort_parent)
        /\ sort_out.k = "map" /\ KeySet(sort_out) = KeySet(sort_in)
        /\ Len(sort_out.items) = Len(sort_in.items)

\* C1 witness: a mapping given as b, a, id under Root has been sorted to
\* id, a, b.
C1_Witness ==
    /\ sort_pc = "sorted" /\ sort_parent = S_Root
    /\ sort_in = FlatMap(<< <<"b">>, <<"a">>, S_id >>)
    /\ sort_out = FlatMap(<< S_id, <<"a">>, <<"b">> >>)

(***************************************************************************)
(* The input files of the runs                                             *)
(***************************************************************************)

\* <tag>text</tag> and <tag><![CDATA[payload]]></tag>
El(tag, s) == <<Open(tag), Text(s), Close(tag)>>
CEl(tag, payload) == <<Open(tag), CData(payload), Close(tag)>>
In(tag, toks) == <<Open(tag)>> \o toks \o <<Close(tag)>>

S_a == <<"a">>
S_b == <<"b">>
S_c == <<"c">>
S_A == <<"A">>
S_B == <<"B">>
S_x == <<"x">>
S_body == <<"b", "o", "d", "y">>
S_note == <<"n", "o", "t", "e">>
V_P1 == <<"P", "1">>
V_P2 == <<"P", "2">>
V_xml_x == <<"<", "x", "/", ">">>
V_xml_y == <<"<", "y", "/", ">">>
V_hi == <<"h", "i">>
V_yo == <<"y", "o">>
V_padded == <<" ", "h", "i", " ">>
V_uri == <<"u", "r", "n", ":", "u">>
V_uri2 == <<"u", "r", "n", ":", "v">>
V_nl == <<"\n", " ">>

Routing(profile, payload) ==
    In(S_TransRouting, El(S_profileName, profile) \o CEl(S_profileXml, payload))

\* <Root><b>2</b><a>1</a><id>X</id></Root>
DocScenario == In(S_Root, El(S_b, <<"2">>) \o El(S_a, <<"1">>) \o El(S_id, <<"X">>))

\* Two TransRouting siblings, P1 and P2, each with a CDATA section under
\* profileXml.
DocRouting(payload1, payload2) ==
    In(S_Root, Routing(V_P1, payload1) \o Routing(V_P2, payload2))

\* An indented file with a declaration: one CDATA section, with blanks
\* around its payload, under A/x.
DocSingle ==
    <<Decl, Text(V_nl), Open(S_Root), Text(V_nl), Open(S_A), Text(V_nl)>>
        \o El(S_name, <<"n">>) \o <<Text(V_nl), Open(S_x), Text(V_nl), CData(V_padded),
             Text(V_nl), Close(S_x), Text(V_nl), Close(S_A), Text(V_nl), Close(S_Root),
             Text(V_nl)>>

\* One CDATA section under A/x and plain text under B/x.
DocSingleOther ==
    In(S_Root, In(S_A, El(S_name, <<"n">>) \o CEl(S_x, V_hi)) \o In(S_B, El(S_x, V_yo)))

\* A root in a namespace, with a child that declares another one.
DocNamespace ==
    <<OpenNs(S_Root, V_uri)>> \o El(S_b, <<"2">>)
        \o <<OpenNs(S_a, V_uri2)>> \o El(S_c, <<"1">>) \o <<Close(S_a), Close(S_Root)>>

DocRootIs(tag) == In(tag, El(S_a, <<"1">>))

\* <Root><a></Root>
DocMalformed == <<Open(S_Root), Open(S_a), Close(S_Root)>>

\* Escaped markup as plain text: a declaration under body, a tag under
\* profileXml of a TransRouting, and a comparison under note.
DocEscaped ==
    In(S_Root,
       El(S_body, S_xmldecl \o <<"\"", "1", "\"", "?">> \o S_gt \o S_lt \o <<"r", "/">> \o S_gt)
       \o In(S_TransRouting,
             El(S_profileName, V_P1) \o El(S_profileXml, S_lt \o <<"x", "/">> \o S_gt))
       \o El(S_note, <<"a", " ">> \o S_lt \o <<" ", "b", " ">> \o S_gt \o <<" ", "c">>))

\* An escaped document whose own text holds escaped markup.
DocNested ==
    In(S_Root,
       El(S_body, S_xmldecl \o <<"\"", "1", "\"", "?">> \o S_gt \o S_lt \o <<"r">> \o S_gt
                    \o <<"&", "a", "m", "p", ";", "l", "t", ";", "b", "/",
                          "&", "a", "m", "p", ";", "g", "t", ";">>
                    \o S_lt \o <<"/", "r">> \o S_gt))

\* Escaped markup in three leaves: an end tag, an escaped > standing before
\* the escaped <, and a start tag alone.
DocReversed ==
    In(S_Root,
       El(<<"m">>, S_lt \o <<"/", "b">> \o S_gt)
       \o El(<<"n">>, S_gt \o S_lt \o <<"/">>)
       \o El(<<"k">>, S_lt \o <<"b">> \o S_gt))

\* Three siblings of one tag, the first with its children out of order and
\* the second a leaf:
\* <Root><z>9</z><i><b>1</b><a>2</a></i><i>x</i><i><a>3</a></i></Root>
DocTriplet ==
    In(S_Root,
       El(<<"z">>, <<"9">>)
       \o In(<<"i">>, El(S_b, <<"1">>) \o El(S_a, <<"2">>))
       \o El(<<"i">>, S_x)
       \o In(<<"i">>, El(S_a, <<"3">>)))

\* The files that exist when the tool is first run.
InitialFiles ==
    Path("a", "x", ".xml") :> DocScenario @@
    Path("b", "x", ".xml") :> DocRouting(V_xml_x, V_xml_y) @@
    Path("a", "plain", ".xml") :> DocRouting(V_hi, V_yo) @@
    Path("a", "mixed", ".xml") :> DocRouting(V_padded, V_xml_y) @@
    Path("a", "single", ".xml") :> DocSingle @@
    Path("a", "other", ".xml") :> DocSingleOther @@
    Path("a", "ns", ".xml") :> DocNamespace @@
    Path("a", "cfg", ".xml") :> DocRootIs(S_config) @@
    Path("a", "cfgdecl", ".xml") :> <<Decl, Text(<<"\n">>)>> \o DocRootIs(S_config) @@
    Path("a", "cfgws", ".xml") :> <<Text(V_nl)>> \o DocRootIs(S_config) @@
    Path("a", "cfgcomment", ".xml") :> <<Comment>> \o DocRootIs(S_config) @@
    Path("a", "cfgion", ".xml") :> DocRootIs(S_configuration) @@
    Path("a", "bad", ".xml") :> DocMalformed @@
    Path("a", "escaped", "") :> DocEscaped @@
    Path("a", "nested", ".xml") :> DocNested @@
    Path("a", "reversed", ".xml") :> DocReversed @@
    Path("a", "triplet", ".xml") :> DocTriplet

\* A path that names no file.
MissingPath == Path("a", "missing", ".xml")

InputPaths == DOMAIN InitialFiles \cup {MissingPath}

\* The most input files given to one run, and the most runs.
MaxFiles == 2
MaxRuns == 2

\* The files that stand beside the file under study in a batch: one that is
\* processed, one of the same basename in another directory, and one that
\* fails.
Companions == {Path("a", "x", ".xml"), Path("b", "x", ".xml"), Path("a", "bad", ".xml")}

\* The command lines: up to MaxFiles input files, in any order and with
\* repeats, at most one of them not a companion.
Batches ==
    {files \in UNION {[1..n -> InputPaths] : n \in 1..MaxFiles} :
        Cardinality({i \in 1..Len(files) : files[i] \notin Companions}) <= 1}

(***************************************************************************)
(* The driver (lines 599-655) and process_xml_file (lines 330-597)         *)
(***************************************************************************)

input_file == args.input_files[idx]

\* datetime.now() at line 618: the clock moves on between two runs.
timestamp == run

\* Lines 624-639: sorted_<base>_<timestamp><ext>, in args.output if given.
OutputName(input, output_dir, stamp) ==
    [dir |-> IF output_dir # NoDir THEN output_dir ELSE ".",
     base |-> input.base, stamps |-> Append(input.stamps, stamp), ext |-> input.ext]

\* re.match(r'\{(.+?)\}', root.tag): what stands between an opening brace
\* at the start of the tag and the first closing brace after at least one
\* character; None without a match.
NamespaceOf(tag) ==
    LET ends == {i \in 3..Len(tag) : tag[i] = "}"} IN
        IF tag # <<>> /\ tag[1] = "{" /\ ends # {}
        THEN SubSeq(tag, 2, (CHOOSE i \in ends : \A j \in ends : i <= j) - 1)
        ELSE None

\* xml_content.lstrip().startswith('<config')
RECURSIVE SkipLeadingSpace(_, _)
SkipLeadingSpace(toks, i) ==
    IF i <= Len(toks) /\ IsWs(toks[i]) THEN SkipLeadingSpace(toks, i + 1) ELSE i

\* A check without the lstrip: the file itself must start with <config.
StartsWithConfig_NoStrip(toks) ==
    /\ toks # <<>>
    /\ toks[1].t \in {"open", "empty"}
    /\ StartsWith(TagText(toks[1]), S_config)

StartsWithConfig(toks) ==
    LET i == SkipLeadingSpace(toks, 1) IN
        /\ i <= Len(toks)
        /\ toks[i].t \in {"open", "empty"}
        /\ StartsWith(TagText(toks[i]), S_config)

ResetLocals ==
    /\ cdata_sections' = <<>> /\ escaped_xml_elements' = <<>>
    /\ xml_content_in_special_elements' = <<>>
    /\ root' = NoElement /\ namespace' = None /\ sorted_dict' = NoTree
    /\ pretty_xml_output' = <<>>

Init ==
    /\ sort_in = NoTree /\ sort_parent = NoTag /\ sort_out = NoTree
    /\ sort_again = NoTree /\ sort_pc = "idle"
    /\ fs = InitialFiles
    /\ dirs = {".", "a", "b"}
    /\ \E files \in Batches, out \in {NoDir, "out"} :
            args = [input_files |-> files, output |-> out]
    /\ run = 1 /\ idx = 1 /\ pc = "file" /\ trail = <<>> /\ err = "none"
    /\ output_filename = NoPath
    /\ cdata_sections = <<>> /\ escaped_xml_elements = <<>>
    /\ xml_content_in_special_elements = <<>>
    /\ root = NoElement /\ namespace = None /\ sorted_dict = NoTree
    /\ pretty_xml_output = <<>>
    /\ reports = <<>> /\ writes = <<>>

\* Lines 621-643: the output name, the output directory, and the call.
StartFile ==
    /\ pc = "file"
    /\ output_filename' = OutputName(input_file, args.output, timestamp)
    /\ dirs' = IF args.output # NoDir THEN dirs \cup {args.output} ELSE dirs
    /\ ResetLocals
    /\ trail' = <<>> /\ err' = "none"
    /\ pc' = "scan"
    /\ UNCHANGED <<sortVars, fs, args, run, idx, reports, writes>>

\* Lines 357-377: the three scans of the raw file.
Scan ==
    /\ pc = "scan"
    /\ input_file \in DOMAIN fs
    /\ LET content == fs[input_file]
           found == find_cdata_sections(content)
       IN  /\ cdata_sections' = found
           /\ escaped_xml_elements' = find_xml_declaration_escaped_content(content)
           /\ \E special_elements \in Orderings(SpecialElementSet(found)) :
                xml_content_in_special_elements' =
                    find_xml_content_in_elements(content, special_elements,
                                                 Len(special_elements))
    /\ trail' = Append(trail, "scan")
    /\ pc' = "check"
    /\ UNCHANGED <<sortVars, fs, dirs, args, run, idx, err, output_filename,
                   root, namespace, sorted_dict, pretty_xml_output, reports, writes>>

\* open(file_path, 'r') of line 210 on a file that does not exist.
ScanFails ==
    /\ pc = "scan"
    /\ input_file \notin DOMAIN fs
    /\ err' = "IOFailure"
    /\ pc' = "except"
    /\ UNCHANGED <<sortVars, fs, dirs, args, run, idx, trail, output_filename,
                   fileVars, reports, writes>>

\* Lines 379-385: the file is read and refused if it starts with <config.
CheckFormat ==
    /\ pc = "check"
    /\ IF StartsWithConfig(fs[input_file])
       THEN err' = "UnsupportedFormat" /\ pc' = "except" /\ trail' = trail
       ELSE err' = err /\ pc' = "parse" /\ trail' = Append(trail, "check")
    /\ UNCHANGED <<sortVars, fs, dirs, args, run, idx, output_filename,
                   fileVars, reports, writes>>

\* Lines 387-399: the parse and the root's namespace.
ParseXml ==
    /\ pc = "parse"
    /\ LET tree == Parse(fs[input_file]) IN
        IF tree.ok
        THEN /\ root' = tree.root
             /\ namespace' = NamespaceOf(tree.root.tag)
             /\ err' = err /\ pc' = "sort" /\ trail' = Append(trail, "parse")
        ELSE /\ err' = "ParseFailure" /\ pc' = "except"
             /\ UNCHANGED <<root, namespace, trail>>
    /\ UNCHANGED <<sortVars, fs, dirs, args, run, idx, output_filename,
                   cdata_sections, escaped_xml_elements, xml_content_in_special_elements,
                   sorted_dict, pretty_xml_output, reports, writes>>

root_tag == AfterLastBrace(root.tag)

\* Lines 401-403.
SortTree ==
    /\ pc = "sort"
    /\ sorted_dict' = sort_dict(Map(<<Entry(root_tag, xml_to_dict(root))>>), root_tag)
    /\ pc' = "print" /\ trail' = Append(trail, "sort")
    /\ UNCHANGED <<sortVars, fs, dirs, args, run, idx, err, output_filename,
                   cdata_sections, escaped_xml_elements, xml_content_in_special_elements,
                   root, namespace, pretty_xml_output, reports, writes>>

\* A printer that saves the text as soon as it is printed, before the
\* reinsertion passes.
PrintXml_WritesEarly ==
    /\ pc = "print"
    /\ pretty_xml_output' = prettify(root_tag, sorted_dict.items[1].val, namespace)
    /\ pc' = "pass1" /\ trail' = Append(trail, "print")
    /\ fs' = (output_filename :> pretty_xml_output') @@ fs
    /\ writes' = Append(writes, [idx |-> idx, path |-> output_filename, after |-> trail'])
    /\ UNCHANGED <<sortVars, dirs, args, run, idx, err, output_filename,
                   cdata_sections, escaped_xml_elements, xml_content_in_special_elements,
                   root, namespace, sorted_dict, reports>>

\* Lines 405-407.
PrintXml ==
    /\ pc = "print"
    /\ pretty_xml_output' = prettify(root_tag, sorted_dict.items[1].val, namespace)
    /\ pc' = "pass1" /\ trail' = Append(trail, "print")
    /\ UNCHANGED <<sortVars, fs, dirs, args, run, idx, err, output_filename,
                   cdata_sections, escaped_xml_elements, xml_content_in_special_elements,
                   root, namespace, sorted_dict, reports, writes>>

\* A reinsertion pass: the printed text is rewritten, nothing else changes.
PassStep(from, to, text) ==
    /\ pc = from
    /\ pretty_xml_output' = text
    /\ pc' = to /\ trail' = Append(trail, from)
    /\ UNCHANGED <<sortVars, fs, dirs, args, run, idx, err, output_filename,
                   cdata_sections, escaped_xml_elements, xml_content_in_special_elements,
                   root, namespace, sorted_dict, reports, writes>>

\* Lines 409-481.
Pass1 == PassStep("pass1", "pass2", RestoreCData(pretty_xml_output, cdata_sections))

\* Lines 483-505.
Pass2 ==
    PassStep("pass2", "pass3",
             PromoteEscapedDecl(pretty_xml_output, escaped_xml_elements, cdata_sections))

\* Lines 507-566.
Pass3 ==
    PassStep("pass3", "pass4",
             RefineSpecial(pretty_xml_output, xml_content_in_special_elements,
                           Len(xml_content_in_special_elements)))

\* Lines 568-594.
Pass4 == PassStep("pass4", "write", FallbackSweep(pretty_xml_output, 1))

\* Lines 596-597: the output file is created, or replaced, with the text.
WriteOutput ==
    /\ pc = "write"
    /\ output_filename.dir \in dirs
    /\ fs' = (output_filename :> pretty_xml_output) @@ fs
    /\ writes' = Append(writes, [idx |-> idx, path |-> output_filename, after |-> trail])
    /\ pc' = "report" /\ trail' = Append(trail, "write")
    /\ UNCHANGED <<sortVars, dirs, args, run, idx, err, output_filename, fileVars, reports>>

\* open(output_file, 'w') refused by the system: the file is neither created
\* nor truncated.
WriteFails ==
    /\ pc = "write"
    /\ err' = "IOFailure"
    /\ pc' = "except"
    /\ UNCHANGED <<sortVars, fs, dirs, args, run, idx, trail, output_filename,
                   fileVars, reports, writes>>

\* The loop goes to the next input file, or ends.
LoopOn ==
    /\ idx' = idx + 1
    /\ pc' = IF idx + 1 > Len(args.input_files) THEN "done" ELSE "file"

\* Lines 644-646.
ReportSuccess ==
    /\ pc = "report"
    /\ reports' = Append(reports, [idx |-> idx, file |-> input_file, kind |-> "success",
                                   message |-> "none", saved |-> output_filename])
    /\ LoopOn
    /\ UNCHANGED <<sortVars, fs, dirs, args, run, trail, err, output_filename,
                   fileVars, writes>>

\* An exception that is printed and ends the batch.
ReportFailure_EndsBatch ==
    /\ pc = "except"
    /\ reports' = Append(reports, [idx |-> idx, file |-> input_file, kind |-> "error",
                                   message |-> err, saved |-> NoPath])
    /\ idx' = idx + 1 /\ pc' = "done"
    /\ UNCHANGED <<sortVars, fs, dirs, args, run, trail, err, output_filename,
                   fileVars, writes>>

\* Lines 647-655: every exception is printed, and the loop goes on.
ReportFailure ==
    /\ pc = "except"
    /\ reports' = Append(reports, [idx |-> idx, file |-> input_file, kind |-> "error",
                                   message |-> err, saved |-> NoPath])
    /\ LoopOn
    /\ UNCHANGED <<sortVars, fs, dirs, args, run, trail, err, output_filename,
                   fileVars, writes>>

\* The files the run wrote, in the order of their writing, without repeats.
RECURSIVE Written(_)
Written(n) == IF n = 0 THEN <<>> ELSE AddKey(Written(n - 1), writes[n].path)

\* The tool is run again, on the files the last run wrote: a new process,
\* with nothing printed and nothing written yet.
RunAgain ==
    /\ pc = "done"
    /\ run < MaxRuns
    /\ writes # <<>>
    /\ args' = [args EXCEPT !.input_files = Written(Len(writes))]
    /\ run' = run + 1
    /\ idx' = 1 /\ pc' = "file"
    /\ reports' = <<>> /\ writes' = <<>>
    /\ UNCHANGED <<sortVars, fs, dirs, trail, err, output_filename, fileVars>>

Next ==
    \/ StartFile \/ Scan \/ ScanFails \/ CheckFormat \/ ParseXml \/ SortTree \/ PrintXml
    \/ Pass1 \/ Pass2 \/ Pass3 \/ Pass4 \/ WriteOutput \/ WriteFails
    \/ ReportSuccess \/ ReportFailure \/ RunAgain

Spec == Init /\ [][Next]_vars

(***************************************************************************)
(* Properties of a processed file.  They are read where the output has     *)
(* just been written (pc = "report"): the source is fs[input_file], the    *)
(* output fs[output_filename].                                             *)
(***************************************************************************)

Source == fs[input_file]
Output == fs[output_filename]

\* The tag of the element whose content token i belongs to, where only
\* character data stands between its start tag and token i.
RECURSIVE EnclosingTag(_, _)
EnclosingTag(toks, i) ==
    IF i = 0 THEN <<>>
    ELSE IF toks[i].t = "open" THEN toks[i].tag
    ELSE IF toks[i].t \in {"text", "cdata"} THEN EnclosingTag(toks, i - 1)
    ELSE <<>>

\* Token j of toks is a CDATA block with this payload inside element tag.
CDataBlockAt(toks, j, tag, payload) ==
    /\ toks[j] = CData(payload)
    /\ EnclosingTag(toks, j - 1) = tag

\* C2: every CDATA section of the input is found again in the output, as a
\* CDATA block inside the same element, its payload identical character
\* for character.
C2_CDataKeptVerbatim ==
    pc = "report" =>
        \A i \in 1..Len(Source) :
            Source[i].t = "cdata" =>
                \E j \in 1..Len(Output) :
                    CDataBlockAt(Output, j, EnclosingTag(Source, i - 1), Source[i].s)

\* The field elements of a block that name it: (tag, trimmed text) of its
\* leaf children called profileName, name, id, keyname, cfgname or cfgName.
IdFields(block) ==
    {<<block.kids[k].tag, Strip(block.kids[k].text)>> :
        k \in {k \in 1..Len(block.kids) :
                    /\ block.kids[k].tag \in CDataIdentifierNames
                    /\ block.kids[k].kids = <<>>}}

\* The index of the end tag that closes the element opened at token i.
RECURSIVE ClosingIndex(_, _, _)
ClosingIndex(toks, j, depth) ==
    IF j > Len(toks) THEN j
    ELSE IF toks[j].t = "close" THEN
            IF depth = 0 THEN j ELSE ClosingIndex(toks, j + 1, depth - 1)
    ELSE IF toks[j].t = "open" THEN ClosingIndex(toks, j + 1, depth + 1)
    ELSE ClosingIndex(toks, j + 1, depth)

\* The root element's start tag, and the start tags of the root's children.
RootIndex(toks) ==
    CHOOSE i \in 1..Len(toks) :
        /\ toks[i].t \in {"open", "empty"}
        /\ \A j \in 1..(i - 1) : toks[j].t \notin {"open", "empty"}

RECURSIVE ChildStarts(_, _)
ChildStarts(toks, j) ==
    IF j > Len(toks) \/ toks[j].t = "close" THEN <<>>
    ELSE IF toks[j].t = "open"
         THEN <<j>> \o ChildStarts(toks, ClosingIndex(toks, j + 1, 0) + 1)
    ELSE IF toks[j].t = "empty" THEN <<j>> \o ChildStarts(toks, j + 1)
    ELSE ChildStarts(toks, j + 1)

\* The blocks of a document: the children of its root, each with its
\* tokens and the element the parser makes of them.
Blocks(toks) ==
    LET starts == ChildStarts(toks, RootIndex(toks) + 1) IN
        {[toks |-> SubSeq(toks, starts[n], ClosingIndex(toks, starts[n] + 1, 0)),
          elem |-> ParseElement(toks, starts[n], <<>>).elem] :
            n \in {n \in 1..Len(starts) : toks[starts[n]].t = "open"}}

\* The payloads of the CDATA sections a block holds under an inner tag.
PayloadsUnder(block, inner) ==
    {block.toks[i].s : i \in {i \in 1..Len(block.toks) :
                                  /\ block.toks[i].t = "cdata"
                                  /\ EnclosingTag(block.toks, i - 1) = inner}}

\* The trimmed texts a parser reads in the leaves called inner of a block.
TextsUnder(block, inner) ==
    {Strip(block.elem.kids[k].text) :
        k \in {k \in 1..Len(block.elem.kids) : block.elem.kids[k].tag = inner}}

\* Source blocks b1 and b2 are siblings of one outer tag, hold a CDATA
\* section under the same inner tag, and differ in their identifier fields.
Rivals(b1, b2, inner) ==
    /\ b1.elem.tag = b2.elem.tag
    /\ PayloadsUnder(b1, inner) # {} /\ PayloadsUnder(b2, inner) # {}
    /\ IdFields(b1.elem) # {}
    /\ IdFields(b1.elem) # IdFields(b2.elem)

InnerTags(toks) == {toks[i].tag : i \in {i \in 1..Len(toks) : toks[i].t = "open"}}

\* C3: where sibling blocks of one outer tag hold a CDATA section under
\* the same inner tag and differ in an identifier field, the output has a
\* block with the identifier fields of each, and what stands under the
\* inner tag of that block is the payload of the source block with those
\* identifier fields, never the payload of its sibling.  (Texts are
\* compared as a parser reads them, trimmed: the CDATA wrapper and the
\* exact characters are the matter of C2.)
C3_PayloadStaysWithItsBlock ==
    pc = "report" =>
        \A b1 \in Blocks(Source), b2 \in Blocks(Source), inner \in InnerTags(Source) :
            Rivals(b1, b2, inner) =>
                /\ \E o \in Blocks(Output) :
                        o.elem.tag = b1.elem.tag /\ IdFields(o.elem) = IdFields(b1.elem)
                /\ \A o \in Blocks(Output) :
                        (o.elem.tag = b1.elem.tag /\ IdFields(o.elem) = IdFields(b1.elem))
                            => TextsUnder(o, inner)
                                   = {Strip(payload) : payload \in PayloadsUnder(b1, inner)}

\* The scenario: <x/> is written under P1 and <y/> under P2.
C3_Witness ==
    /\ pc = "report"
    /\ Source = DocRouting(V_xml_x, V_xml_y)
    /\ \E o1 \in Blocks(Output), o2 \in Blocks(Output) :
            /\ IdFields(o1.elem) = {<<S_profileName, V_P1>>}
            /\ PayloadsUnder(o1, S_profileXml) = {V_xml_x}
            /\ IdFields(o2.elem) = {<<S_profileName, V_P2>>}
            /\ PayloadsUnder(o2, S_profileXml) = {V_xml_y}

\* The element ordering of a document: the tags of its start tags, in
\* document order; and its CDATA payloads, each with its element's tag.
ElementOrder(toks) ==
    LET starts == SelectSeq(toks, LAMBDA tok : tok.t \in {"open", "empty"})
    IN  [i \in 1..Len(starts) |-> starts[i].tag]

RECURSIVE CDataPayloads(_, _)
CDataPayloads(toks, n) ==
    IF n = 0 THEN <<>>
    ELSE IF toks[n].t = "cdata"
         THEN Append(CDataPayloads(toks, n - 1), <<EnclosingTag(toks, n - 1), toks[n].s>>)
         ELSE CDataPayloads(toks, n - 1)

\* C4: the tool run on its own output (run 2 and later: the input is what
\* the run before wrote) yields the element ordering and the CDATA
\* payloads of its input.
C4_RerunKeepsOutput ==
    (run > 1 /\ pc = "report") =>
        /\ ElementOrder(Output) = ElementOrder(Source)
        /\ CDataPayloads(Output, Len(Output)) = CDataPayloads(Source, Len(Source))

\* The part of C4 that is about sort_dict alone: sorting a sorted tree
\* changes nothing, key order included.
SortIsIdempotent == sort_pc = "resorted" => sort_again = sort_out

\* A tag that names a namespace: in the parser's {uri}local form, or with
\* a prefix.
IsQualified(tag) == \E i \in 1..Len(tag) : tag[i] \in {"{", "}", ":"}

\* C5: if the input root is in a namespace, the output root declares that
\* very URI, and no other element of the output declares a namespace or
\* has a qualified tag; if the input root is in no namespace, no element of
\* the output declares one.
C5_NamespaceOnRootOnly ==
    pc = "report" =>
        LET uri == Source[RootIndex(Source)].ns
            r == RootIndex(Output)
        IN  /\ Output[r].ns = uri
            /\ \A j \in 1..Len(Output) :
                    /\ j # r => Output[j].ns = <<>>
                    /\ ~IsQualified(Output[j].tag)

\* A document whose root is in urn:u, and a child in urn:v, is written with
\* urn:u on its root.
C5_Witness ==
    /\ pc = "report"
    /\ Source = DocNamespace
    /\ Output[1] = OpenNs(S_Root, V_uri)
    /\ \E j \in 2..Len(Output) : Output[j] = Open(S_a)

\* The text of the file, leading whitespace trimmed, starts with <config.
TrimmedStartsWithConfig(toks) ==
    \E i \in 1..Len(toks) :
        /\ \A j \in 1..(i - 1) : toks[j].t = "text" /\ IsSpace(toks[j].s)
        /\ toks[i].t \in {"open", "empty"}
        /\ StartsWith(toks[i].tag, S_config)

HasRoot(toks) == \E i \in 1..Len(toks) : toks[i].t \in {"open", "empty"}

WroteFor(n) == \E w \in 1..Len(writes) : writes[w].idx = n

\* C6: a readable input is reported as UnsupportedFormat exactly when the
\* tag of its root element is literally config, whatever precedes the root;
\* and no output is written for an input whose root is config.
C6_RejectedIffRootIsConfig ==
    \A n \in 1..Len(reports) :
        LET r == reports[n] IN
            (r.file \in DOMAIN fs /\ HasRoot(fs[r.file])) =>
                LET isConfig == fs[r.file][RootIndex(fs[r.file])].tag = S_config IN
                    /\ isConfig <=> r.message = "UnsupportedFormat"
                    /\ isConfig => ~WroteFor(r.idx)

\* The output file of the current input is as the other inputs of the run
\* left it: if it exists, another input of the run wrote it.
OutputUntouched ==
    /\ ~WroteFor(idx)
    /\ output_filename \in DOMAIN fs =>
            \E w \in 1..Len(writes) : writes[w].path = output_filename

\* C7: an input whose text, leading whitespace trimmed, starts with <config
\* never reaches the parse, the sort, the printer or a reinsertion pass: it
\* ends in the UnsupportedFormat error with only the scans done, no tree
\* and no text built, and its output file neither created nor modified.
C7_ConfigRefusedBeforeParsing ==
    (pc \notin {"file", "scan", "done"} /\ input_file \in DOMAIN fs
        /\ TrimmedStartsWithConfig(Source)) =>
            /\ pc \in {"check", "except"}
            /\ trail = <<"scan">>
            /\ root = NoElement /\ sorted_dict = NoTree /\ pretty_xml_output = <<>>
            /\ pc = "except" => err = "UnsupportedFormat"
            /\ OutputUntouched

\* A file that starts with whitespace and then <config has been refused.
C7_Witness ==
    /\ pc = "except" /\ err = "UnsupportedFormat"
    /\ input_file = Path("a", "cfgws", ".xml")
    /\ TrimmedStartsWithConfig(Source)

\* The steps of process_xml_file that precede the write.
StepsBeforeWrite ==
    <<"scan", "check", "parse", "sort", "print", "pass1", "pass2", "pass3", "pass4">>

\* C8: for one input the output file is written at most once, and only
\* with every step before the write done; an input that failed has no
\* write, an input that succeeded exactly one; while an input is processed,
\* and after it failed, its output file is untouched.
C8_WrittenOnceAtTheEnd ==
    /\ \A w \in 1..Len(writes) : writes[w].after = StepsBeforeWrite
    /\ \A v \in 1..Len(writes), w \in 1..Len(writes) :
            writes[v].idx = writes[w].idx => v = w
    /\ \A n \in 1..Len(reports) :
            (reports[n].kind = "success") <=> WroteFor(reports[n].idx)
    /\ pc \in {"scan", "check", "parse", "sort", "print", "pass1", "pass2", "pass3",
                "pass4", "write", "except"} => OutputUntouched
    /\ pc = "report" => WroteFor(idx) /\ Output = pretty_xml_output

\* A batch whose first file failed to parse and whose second was written.
C8_Witness ==
    /\ pc = "done"
    /\ Len(reports) = 2 /\ Len(writes) = 1
    /\ reports[1].message = "ParseFailure"
    /\ reports[2].kind = "success"
    /\ writes[1].idx = 2 /\ writes[1].path \in DOMAIN fs

\* What a file can be reported as, from the file alone.
Verdicts(file) ==
    IF file \notin DOMAIN fs THEN {"IOFailure"}
    ELSE IF TrimmedStartsWithConfig(fs[file]) THEN {"UnsupportedFormat"}
    ELSE IF ~Parse(fs[file]).ok THEN {"ParseFailure"}
    ELSE {"none", "IOFailure"}

\* C9: the reports are one per input file, in list order; the batch ends
\* only with the whole list reported; a report is a success with its
\* output path or a failure with its message; and what a file is reported
\* as depends on that file alone, not on the files before it.
C9_BatchGoesOn ==
    /\ Len(reports) = idx - 1
    /\ pc = "done" => Len(reports) = Len(args.input_files)
    /\ \A n \in 1..Len(reports) :
            LET r == reports[n] IN
                /\ r.idx = n /\ r.file = args.input_files[n]
                /\ r.message \in Verdicts(r.file)
                /\ r.kind = (IF r.message = "none" THEN "success" ELSE "error")
                /\ r.saved = (IF r.kind = "success"
                              THEN OutputName(r.file, args.output, run) ELSE NoPath)

\* A batch whose first file failed and whose second was still processed.
C9_Witness ==
    /\ pc = "done"
    /\ Len(args.input_files) = 2 /\ Len(reports) = 2
    /\ reports[1].kind = "error"
    /\ reports[2].kind = "success"

\* C10: after the batch there are as many output files as inputs processed
\* with success, and no two inputs of the batch were written to one file.
C10_OneOutputPerSuccess ==
    pc = "done" =>
        /\ Cardinality({writes[w].path : w \in 1..Len(writes)})
                = Cardinality({n \in 1..Len(reports) : reports[n].kind = "success"})
        /\ \A v \in 1..Len(writes), w \in 1..Len(writes) :
                writes[v].path = writes[w].path => v = w

(***************************************************************************)
(* Further properties of the sorter                                        *)
(***************************************************************************)

\* A mapping whose parent tag has a list of its own: the keys of that list
\* first, in its order; every other key after them, alphabetically without
\* regard to case, whether the global list names it or not.
OverrideDecides(entries, parent_tag) ==
    LET own == element_priority_keywords_map[parent_tag] IN
        \A i, j \in 1..Len(entries) : i < j =>
            LET a == entries[i].key
                b == entries[j].key
            IN  IF IsPriorityKey(a, own)
                THEN IsPriorityKey(b, own) => FirstPosition(a, own) <= FirstPosition(b, own)
                ELSE ~IsPriorityKey(b, own) /\ ~StrLess(Lower(b), Lower(a))

RECURSIVE OverridesDecide(_, _)
OverridesDecide(node, parent_tag) ==
    IF node.k = "map" THEN
        /\ parent_tag \in DOMAIN element_priority_keywords_map
                => OverrideDecides(node.items, parent_tag)
        /\ \A i \in 1..Len(node.items) :
                OverridesDecide(node.items[i].val, node.items[i].key)
    ELSE IF node.k = "list" THEN
        \A i \in 1..Len(node.items) : OverridesDecide(node.items[i], parent_tag)
    ELSE TRUE

\* C11: under a parent tag that has an entry in
\* element_priority_keywords_map only that entry's list decides priority:
\* a key of the global list that is not in the parent's list is sorted
\* alphabetically, after the keys of the parent's list.
C11_OverrideReplacesGlobal ==
    sort_pc # "start" => OverridesDecide(sort_out, sort_parent)

\* Under TransRouting, name (a key of the global list) goes after a.
C11_Witness ==
    /\ sort_pc = "sorted" /\ sort_parent = S_TransRouting
    /\ sort_in = FlatMap(<< S_name, <<"a">>, S_profileName >>)
    /\ sort_out = FlatMap(<< S_profileName, <<"a">>, S_name >>)

\* The keys of a mapping, in their order.
KeysOf(node) == [i \in 1..Len(node.items) |-> node.items[i].key]

\* The same entries in every order.
Rearrangements(entries) ==
    LET n == Len(entries) IN
        {[i \in 1..n |-> entries[p[i]]] :
            p \in {p \in [1..n -> 1..n] : \A i, j \in 1..n : i # j => p[i] # p[j]}}

\* C12: the key order sort_dict returns depends on the set of keys and the
\* parent tag alone: the same entries given in any other order, keys that
\* differ only in letter case included, come out in the same key order.
C12_OrderIsCanonical ==
    sort_pc # "start" =>
        \A entries \in Rearrangements(sort_in.items) :
            KeysOf(sort_dict(Map(entries), sort_parent)) = KeysOf(sort_out)

(***************************************************************************)
(* Properties of the reinsertion passes                                    *)
(***************************************************************************)

\* The texts of the leaves <tag>text</tag> of a document, trimmed.
PlainLeafTexts(toks, tag) ==
    {Strip(toks[i + 1].s) :
        i \in {i \in 1..(Len(toks) - 2) :
                    /\ toks[i] = Open(tag)
                    /\ toks[i + 1].t = "text" /\ ~IsSpace(toks[i + 1].s)
                    /\ toks[i + 2].t = "close"}}

\* The CDATA sections a document holds under a tag.
CDataUnder(toks, tag) ==
    {i \in 1..Len(toks) : toks[i].t = "cdata" /\ EnclosingTag(toks, i - 1) = tag}

\* C13: where the source holds exactly one CDATA section under an inner
\* tag, pass 1 wraps that one element only: the other leaves of that tag,
\* plain text in the source, still hold their own text after the pass and
\* have not received the payload.
C13_OnlyCDataLeavesRewritten ==
    pc = "pass2" =>
        \A tag \in InnerTags(Source) :
            Cardinality(CDataUnder(Source, tag)) = 1 =>
                /\ PlainLeafTexts(Source, tag) \subseteq PlainLeafTexts(pretty_xml_output, tag)
                /\ Cardinality(CDataUnder(pretty_xml_output, tag)) <= 1

\* The steps done so far are the first steps of the pipeline, in its order:
\* pass 1, pass 2, pass 3, pass 4 and then the write.
PassesInOrder ==
    \E n \in 0..(Len(StepsBeforeWrite) + 1) :
        trail = SubSeq(Append(StepsBeforeWrite, "write"), 1, n)

\* A step of pass 2, 3 or 4 leaves every CDATA block of the text as it
\* found it: no block is wrapped again and no payload is rewritten.
WrappersKept ==
    pc \in {"pass2", "pass3", "pass4"} =>
        \A j \in 1..Len(pretty_xml_output) :
            pretty_xml_output[j].t = "cdata" =>
                \E m \in 1..Len(pretty_xml_output') :
                    /\ pretty_xml_output'[m] = pretty_xml_output[j]
                    /\ EnclosingTag(pretty_xml_output', m - 1)
                            = EnclosingTag(pretty_xml_output, j - 1)

\* C14: the passes run in the order 1, 2, 3, 4, and a pass never rewrites
\* an element that already holds a CDATA block: the block keeps the payload
\* of the pass that first wrapped it, and no later pass puts a CDATA block
\* inside that payload.
C14_NoPassRewraps == []PassesInOrder /\ [][WrappersKept]_vars

\* Token i of the text opens a leaf <tag>text</tag>.
IsLeafAt(toks, i) ==
    /\ i + 2 <= Len(toks)
    /\ toks[i].t = "open" /\ toks[i + 1].t = "text" /\ toks[i + 2].t = "close"

\* C15: pass 4 rewrites a leaf of the printed text as <tag><![CDATA[...]]>
\* with its text unescaped exactly when the text holds an escaped < and an
\* escaped >, in whichever order, and the unescaped text holds </ or />;
\* every other leaf is left as it was.
C15_FallbackSweepRule ==
    [][pc = "pass4" =>
        /\ Len(pretty_xml_output') = Len(pretty_xml_output)
        /\ \A i \in 1..Len(pretty_xml_output) :
                IsLeafAt(pretty_xml_output, i) =>
                    LET text == pretty_xml_output[i + 1].s
                        unescaped == CodeUnescape(text)
                    IN  IF /\ Contains(text, S_lt) /\ Contains(text, S_gt)
                           /\ (Contains(unescaped, <<"<", "/">>)
                                    \/ Contains(unescaped, <<"/", ">">>))
                        THEN /\ pretty_xml_output'[i] = pretty_xml_output[i]
                             /\ pretty_xml_output'[i + 1] = CData(unescaped)
                             /\ pretty_xml_output'[i + 2].t = "close"
                        ELSE SubSeq(pretty_xml_output', i, i + 2)
                                = SubSeq(pretty_xml_output, i, i + 2)]_vars

\* The children of an element whose tag, without its namespace, is `tag`,
\* in document order.
SiblingsOf(element, tag) ==
    SelectSeq(element.kids, LAMBDA c : AfterLastBrace(c.tag) = tag)

\* node holds the content of element, whatever the order of its keys: a
\* leaf for an element without children; otherwise a mapping with one key
\* per child tag, whose value is a sequence of two or more items, one per
\* same-tag sibling in document order, or else the value of the only child
\* of that tag.
RECURSIVE HoldsElement(_, _)
HoldsElement(node, element) ==
    IF element.kids = <<>>
    THEN node = Leaf(IF element.text # <<>> THEN Strip(element.text) ELSE <<>>)
    ELSE /\ node.k = "map"
         /\ {node.items[i].key : i \in 1..Len(node.items)}
                = {AfterLastBrace(element.kids[i].tag) : i \in 1..Len(element.kids)}
         /\ \A i, j \in 1..Len(node.items) :
                node.items[i].key = node.items[j].key => i = j
         /\ \A i \in 1..Len(node.items) :
                LET val == node.items[i].val
                    siblings == SiblingsOf(element, node.items[i].key)
                IN  IF val.k = "list"
                    THEN /\ Len(val.items) >= 2
                         /\ Len(val.items) = Len(siblings)
                         /\ \A j \in 1..Len(siblings) :
                                HoldsElement(val.items[j], siblings[j])
                    ELSE /\ Len(siblings) = 1
                         /\ HoldsElement(val, siblings[1])

\* `after` has the keys of `before`, in some order, and under each key a
\* sequence of the same length whose j-th item comes from the j-th item of
\* `before`.
RECURSIVE ListsKept(_, _)
ListsKept(before, after) ==
    /\ after.k = before.k
    /\ IF before.k = "leaf" THEN after = before
       ELSE IF before.k = "list"
       THEN /\ Len(after.items) = Len(before.items)
            /\ \A j \in 1..Len(before.items) :
                    ListsKept(before.items[j], after.items[j])
       ELSE /\ Len(after.items) = Len(before.items)
            /\ \A i \in 1..Len(before.items) :
                    \E j \in 1..Len(after.items) :
                        /\ after.items[j].key = before.items[i].key
                        /\ ListsKept(before.items[i].val, after.items[j].val)

\* C16: in the tree xml_to_dict builds from the parsed root and in the tree
\* sort_dict returns for it, every sequence holds two or more items, which
\* are the values of the same-tag siblings in document order, and sort_dict
\* keeps the length of every sequence and the order of its items.
C16_ListsKeepSiblings ==
    sorted_dict.k = "map" =>
        /\ HoldsElement(xml_to_dict(root), root)
        /\ HoldsElement(sorted_dict.items[1].val, root)
        /\ ListsKept(xml_to_dict(root), sorted_dict.items[1].val)

\* Three siblings <i> have been sorted: the children of the first are now
\* in order, and the three items stand as the siblings did.
C16_Witness ==
    /\ sorted_dict.k = "map"
    /\ \E i \in 1..Len(xml_to_dict(root).items) :
            LET val == xml_to_dict(root).items[i].val
            IN  /\ val.k = "list"
                /\ val.items[1]
                        = Map(<<Entry(S_b, Leaf(<<"1">>)), Entry(S_a, Leaf(<<"2">>))>>)
    /\ sorted_dict.items[1].val.items[1]
            = Entry(<<"i">>, List(<<Map(<<Entry(S_a, Leaf(<<"2">>)),
                                          Entry(S_b, Leaf(<<"1">>))>>),
                                    Leaf(S_x),
                                    Map(<<Entry(S_a, Leaf(<<"3">>))>>)>>))

====
